---- MODULE Spec2Model ----
(***************************************************************************)
(* Model of mqtt_test_publisher.py: the publish/pacing loop of run_test,   *)
(* the callbacks the paho client's network thread delivers, and the pure   *)
(* helpers vary_location, calculate_distance, generate_telemetry_message.  *)
(*                                                                         *)
(* Units.  Latitudes and longitudes are integers in micro-degrees (the     *)
(* 6-decimal grid round(x, 6) produces), altitudes and distances integers   *)
(* in centimetres (the 2-decimal grid round(x, 2) produces).  The double   *)
(* a coordinate is stored as is the one nearest to that decimal; its       *)
(* representation error is computed where a property depends on it.        *)
(*                                                                         *)
(* Spec is the run of the publisher (run_test and the callbacks) for a     *)
(* duration of 1..MaxDuration minutes; SpecGeo applies vary_location and   *)
(* generate_telemetry_message to drawn random.uniform results.             *)
(***************************************************************************)
EXTENDS Integers, Sequences, FiniteSets, TLC

\* ------------------------------------------------------------------------
\* Bounds of the model
\* ------------------------------------------------------------------------
MaxDuration == 3

\* ------------------------------------------------------------------------
\* State
\* ------------------------------------------------------------------------
VARIABLES
  pc,              \* position of the main thread in run_test / __main__
  total_messages,  \* DURATION_MINUTES as configured for this run
  i,               \* loop variable of "for i in range(total_messages)"
  count,           \* client._userdata["count"]
  trace,           \* history: "pub" (client.publish returned), "pub_raised"
                   \* (client.publish raised), "sleep" (time.sleep(60)
                   \* done), "fail" (the cycle raised an Exception)
  attempted,       \* history: cycles (1-based) whose try body was entered
  errored,         \* history: cycles (1-based) whose body raised Exception
  interrupted,     \* history: a KeyboardInterrupt was delivered
  connectRaised,   \* history: client.connect raised
  sessionStarted,  \* history: connect and loop_start both returned
  loopRunning,     \* the client's network thread is running
  sock,            \* "none" | "open" | "closed"
  connack,         \* "none" | "pending" | "accepted" | "refused"
  onConnectRc,     \* rc handed to on_connect, -1 before it is called
  inflight,        \* publishes (by ordinal) waiting for their acknowledgement
  ackLog,          \* on_publish calls: [msg |-> ordinal, read |-> count read]
  reports,         \* failure / farewell lines printed
  reported,        \* count printed by the cleanup step, -1 if not printed
  gpc,             \* helper pipeline: "drawn" | "varied" | "generated"
  draw,            \* the three random.uniform results of one vary_location call
  loc,             \* the location vary_location returned
  message          \* the message generate_telemetry_message returned

runVars == <<pc, total_messages, i, count, trace, attempted, errored,
             interrupted, connectRaised, sessionStarted, loopRunning, sock,
             connack, onConnectRc, inflight, ackLog, reports, reported>>

geoVars == <<gpc, draw, loc, message>>

vars == <<runVars, geoVars>>

\* CONNACK return codes of MQTT 3.1.1: 0 accepted, 1..5 refused.
ConnackCodes == 0..5

TryBody == {"sample", "publish", "count", "log", "sleep60"}
Terminal == {"returned", "stopped_by_user"}

Pubs(t) == Cardinality({k \in 1..Len(t) : t[k] = "pub"})
Sleeps(t) == Cardinality({k \in 1..Len(t) : t[k] = "sleep"})

\* ------------------------------------------------------------------------
\* Configuration (micro-degrees, centimetres)
\* ------------------------------------------------------------------------
BASE_LATITUDE == 12860855
BASE_LONGITUDE == 77659462
BASE_ALTITUDE == 86414
LAT_VARIATION == 100
LON_VARIATION == 100
ALT_VARIATION == 200
fence_center_lat == 12860779
fence_center_lon == 77659538
fence_radius == 2000

\* Decimal scale of the two grids: 10^6 for round(x, 6), 10^2 for round(x, 2).
LatLonScale == 10 * 10 * 10 * 10 * 10 * 10
AltScale == 10 * 10

\* ------------------------------------------------------------------------
\* Arithmetic helpers
\* ------------------------------------------------------------------------
Abs(x) == IF x < 0 THEN -x ELSE x

RECURSIVE GCD(_, _)
GCD(a, b) == IF b = 0 THEN a ELSE GCD(b, a % b)

\* floor(sqrt(n)) by bisection, lo*lo <= n < (hi+1)*(hi+1).
RECURSIVE SqrtSearch(_, _, _)
SqrtSearch(n, lo, hi) ==
  IF lo = hi THEN lo
  ELSE LET mid == (lo + hi + 1) \div 2
       IN IF mid * mid <= n THEN SqrtSearch(n, mid, hi)
                            ELSE SqrtSearch(n, lo, mid - 1)

Isqrt(n) == SqrtSearch(n, 0, 46340)

\* x * y for 0 <= x, y < 10^8 as four limbs in base 10^4, most significant
\* first (the products of the distance formula exceed the 32-bit integers).
WideMul(x, y) ==
  LET B  == 10000
      x1 == x \div B
      x0 == x % B
      y1 == y \div B
      y0 == y % B
      c0 == x0 * y0
      c1 == x1 * y0 + x0 * y1 + (c0 \div B)
      c2 == x1 * y1 + (c1 \div B)
  IN <<c2 \div B, c2 % B, c1 % B, c0 % B>>

\* u <= v for two limb sequences of the same length.
RECURSIVE WideLeq(_, _)
WideLeq(u, v) ==
  IF u = <<>> THEN TRUE
  ELSE IF Head(u) # Head(v) THEN Head(u) < Head(v)
  ELSE WideLeq(Tail(u), Tail(v))

\* (a * b) mod m for 0 <= a, b < m <= 10^6, without leaving 32 bits.
MulMod(a, b, m) ==
  (((a * (b \div 1000)) % m) * 1000 + a * (b % 1000)) % m

RECURSIVE Pow2Mod(_, _)
Pow2Mod(p, m) == IF p = 0 THEN 1 % m ELSE (2 * Pow2Mod(p - 1, m)) % m

\* ------------------------------------------------------------------------
\* IEEE-754 doubles
\*
\* A coordinate the program holds is the double nearest to a decimal k / M
\* (M = 10^6 or 10^2).  With 2^-p the spacing of the doubles around it, that
\* double is (k * 2^p + DoubleErr(k, M)) / (M * 2^p): DoubleErr is the
\* representation error in units of 1/M of the spacing, |DoubleErr| < M.
\* ------------------------------------------------------------------------
\* p for the binade of k / M >= 1: 52 - floor(log2(k / M)).
RECURSIVE Log2Floor(_, _)
Log2Floor(k, M) == IF k < 2 * M THEN 0 ELSE 1 + Log2Floor(k \div 2, M)

UlpExp(k, M) == 52 - Log2Floor(k, M)

\* (k * 2^p) mod M
ScaledFrac(k, p, M) == MulMod(k % M, Pow2Mod(p, M), M)

\* Round to nearest: the remainder is never exactly M / 2 for M = 10^6 or
\* 10^2 and p >= 6, so no tie arises.
DoubleErr(k, M) ==
  LET r == ScaledFrac(k, UlpExp(k, M), M)
  IN IF 2 * r < M THEN -r ELSE M - r

\* ------------------------------------------------------------------------
\* Helper functions
\* ------------------------------------------------------------------------
\* round(x, ndigits) of x = raw / sub grid steps: the nearest grid point. A
\* raw value halfway between two grid points stands for the doubles on
\* either side of the tie, so both neighbours are possible results.
RoundGridCoarse(raw, sub) ==
  {10 * q : q \in {g \in {raw \div (10 * sub), raw \div (10 * sub) + 1} :
                     2 * Abs(g * 10 * sub - raw) <= 10 * sub}}
RoundGrid(raw, sub) ==
  {g \in {raw \div sub, raw \div sub + 1} : 2 * Abs(g * sub - raw) <= sub}

\* vary_location(base_lat, base_lon, base_alt) for the uniform results d,
\* given in 1/sub of a grid step.
vary_location(base_lat, base_lon, base_alt, d, sub) ==
  {[lat |-> a, lon |-> b, alt |-> c] :
     a \in RoundGrid(base_lat * sub + d.lat, sub),
     b \in RoundGrid(base_lon * sub + d.lon, sub),
     c \in RoundGrid(base_alt * sub + d.alt, sub)}

\* Metres per degree, in micro-metres per micro-degree: 111000 and
\* 111000 * 0.88.
LatMetres == 111000
LonMetres == (111000 * 88) \div 100

\* calculate_distance(lat1, lon1, lat2, lon2) in centimetres.  With
\* G = gcd(LatMetres, LonMetres) the distance is G * sqrt(s) micro-metres,
\* s = (|dlat| * LatMetres / G)^2 + (|dlon| * LonMetres / G)^2, and
\* round(.., 2) yields a d with |G * sqrt(s) - 10^4 * d| <= 5000, that is
\* (5000 * (2d - 1))^2 <= G^2 * s <= (5000 * (2d + 1))^2.  Both neighbours
\* of an exact tie are results: the doubles decide it either way.
calculate_distance(lat1, lon1, lat2, lon2) ==
  LET G == GCD(LatMetres, LonMetres)
      lat_diff == Abs(lat1 - lat2) * (LatMetres \div G)
      lon_diff == Abs(lon1 - lon2) * (LonMetres \div G)
      s == lat_diff * lat_diff + lon_diff * lon_diff
      est == (G * Isqrt(s)) \div 10000
      gs == WideMul(G * G, s)
  IN {d \in est .. est + 1 :
        /\ d = 0 \/ WideLeq(WideMul(5000 * (2 * d - 1), 5000 * (2 * d - 1)), gs)
        /\ WideLeq(gs, WideMul(5000 * (2 * d + 1), 5000 * (2 * d + 1)))}

\* fence_status = "inside_fence" if distance_from_fence < fence_radius
\*                else "outside_fence"
FenceStatusInclusive(distance, radius) ==
  IF distance <= radius THEN "inside_fence" ELSE "outside_fence"
FenceStatus(distance, radius) ==
  IF distance < radius THEN "inside_fence" ELSE "outside_fence"

\* generate_telemetry_message(lat, lon, alt): the location and fence parts
\* of the message (identity fields are constants; timestamp, battery, steps
\* and alert are drawn independently of the location).
generate_telemetry_message(lat, lon, alt) ==
  {[latitude   |-> lat,
    longitude  |-> lon,
    altitude   |-> alt,
    status     |-> FenceStatus(distance_from_fence, fence_radius),
    center_lat |-> fence_center_lat,
    center_lon |-> fence_center_lon,
    radius_m   |-> fence_radius,
    distance_m |-> distance_from_fence] :
     distance_from_fence \in
       calculate_distance(lat, lon, fence_center_lat, fence_center_lon)}

\* ------------------------------------------------------------------------
\* The helpers applied to drawn inputs
\* ------------------------------------------------------------------------
\* random.uniform(-V, V) in 1/SubSteps of a grid step; the latitude takes
\* every such value, longitude and altitude DrawPoints + 1 evenly spread
\* ones, the two ends of the interval among them.
SubSteps == 2
DrawPoints == 8

UniformAll(V) == (-V * SubSteps) .. (V * SubSteps)
UniformSpread(V) ==
  {-V * SubSteps + (2 * V * SubSteps * c) \div DrawPoints : c \in 0..DrawPoints}

NoMessage ==
  [latitude |-> 0, longitude |-> 0, altitude |-> 0, status |-> "none",
   center_lat |-> 0, center_lon |-> 0, radius_m |-> 0, distance_m |-> 0]
BaseLocation ==
  [lat |-> BASE_LATITUDE, lon |-> BASE_LONGITUDE, alt |-> BASE_ALTITUDE]

GeoIdle ==
  /\ gpc = "idle"
  /\ draw = [lat |-> 0, lon |-> 0, alt |-> 0]
  /\ loc = BaseLocation
  /\ message = NoMessage

GeoDrawn ==
  /\ gpc = "drawn"
  /\ draw \in [lat : UniformAll(LAT_VARIATION),
               lon : UniformSpread(LON_VARIATION),
               alt : UniformSpread(ALT_VARIATION)]
  /\ loc = BaseLocation
  /\ message = NoMessage

\* lat, lon, alt = vary_location(BASE_LATITUDE, BASE_LONGITUDE, BASE_ALTITUDE)
VaryLocation ==
  /\ gpc = "drawn"
  /\ gpc' = "varied"
  /\ loc' \in vary_location(BASE_LATITUDE, BASE_LONGITUDE, BASE_ALTITUDE,
                            draw, SubSteps)
  /\ UNCHANGED <<runVars, draw, message>>

\* message = generate_telemetry_message(lat, lon, alt)
GenerateTelemetryMessage ==
  /\ gpc = "varied"
  /\ gpc' = "generated"
  /\ message' \in generate_telemetry_message(loc.lat, loc.lon, loc.alt)
  /\ UNCHANGED <<runVars, draw, loc>>

NextGeo ==
  \/ VaryLocation
  \/ GenerateTelemetryMessage

\* ------------------------------------------------------------------------
\* run_test
\* ------------------------------------------------------------------------
InitRun(durations) ==
  /\ pc = "connect"
  /\ total_messages \in durations
  /\ i = 0
  /\ count = 0
  /\ trace = <<>>
  /\ attempted = {}
  /\ errored = {}
  /\ interrupted = FALSE
  /\ connectRaised = FALSE
  /\ sessionStarted = FALSE
  /\ loopRunning = FALSE
  /\ sock = "none"
  /\ connack = "none"
  /\ onConnectRc = -1
  /\ inflight = <<>>
  /\ ackLog = <<>>
  /\ reports = {}
  /\ reported = -1

Init ==
  /\ InitRun(1..MaxDuration)
  /\ GeoIdle

\* client.connect(MQTT_HOST, MQTT_PORT, 60) returns: the socket is open and
\* the CONNECT packet is out; the CONNACK is read later by the network thread.
ConnectOk ==
  /\ pc = "connect"
  /\ pc' = "loop_start"
  /\ sock' = "open"
  /\ connack' = "pending"
  /\ UNCHANGED <<geoVars, total_messages, i, count, trace, attempted, errored,
                 interrupted, connectRaised, sessionStarted, loopRunning,
                 onConnectRc, inflight, ackLog, reports, reported>>

\* client.connect raises: "except Exception" prints and returns.
ConnectRaises ==
  /\ pc = "connect"
  /\ pc' = "returned"
  /\ connectRaised' = TRUE
  /\ reports' = reports \cup {"failed_to_connect"}
  /\ UNCHANGED <<geoVars, total_messages, i, count, trace, attempted, errored,
                 interrupted, sessionStarted, loopRunning, sock, connack,
                 onConnectRc, inflight, ackLog, reported>>

\* client.loop_start()
LoopStart ==
  /\ pc = "loop_start"
  /\ pc' = "startup_sleep"
  /\ loopRunning' = TRUE
  /\ sessionStarted' = TRUE
  /\ UNCHANGED <<geoVars, total_messages, i, count, trace, attempted, errored,
                 interrupted, connectRaised, sock, connack, onConnectRc,
                 inflight, ackLog, reports, reported>>

\* time.sleep(2) returns; nothing is read back from the client.
StartupSleep ==
  /\ pc = "startup_sleep"
  /\ pc' = "for"
  /\ UNCHANGED <<geoVars, total_messages, i, count, trace, attempted, errored,
                 interrupted, connectRaised, sessionStarted, loopRunning,
                 sock, connack, onConnectRc, inflight, ackLog, reports,
                 reported>>

\* for i in range(total_messages): next iteration or loop exhaustion.
ForNext ==
  /\ pc = "for"
  /\ IF i < total_messages
       THEN /\ pc' = "sample"
            /\ attempted' = attempted \cup {i + 1}
       ELSE /\ pc' = "report"
            /\ UNCHANGED attempted
  /\ UNCHANGED <<geoVars, total_messages, i, count, trace, errored, interrupted,
                 connectRaised, sessionStarted, loopRunning, sock, connack,
                 onConnectRc, inflight, ackLog, reports, reported>>

\* vary_location, generate_telemetry_message, json.dumps and the debug
\* prints return normally.
SampleOk ==
  /\ pc = "sample"
  /\ pc' = "publish"
  /\ UNCHANGED <<geoVars, total_messages, i, count, trace, attempted, errored,
                 interrupted, connectRaised, sessionStarted, loopRunning,
                 sock, connack, onConnectRc, inflight, ackLog, reports,
                 reported>>

\* "except Exception as e: print(...); continue"
AfterCycleErrorBreak(idx) == [pc |-> "report", i |-> idx]
AfterCycleError(idx) == [pc |-> "for", i |-> idx + 1]

CycleError(ev) ==
  /\ pc' = AfterCycleError(i).pc
  /\ i' = AfterCycleError(i).i
  /\ trace' = trace \o ev \o <<"fail">>
  /\ errored' = errored \cup {i + 1}
  /\ reports' = reports \cup {"error_publishing"}

\* An Exception raised before the publish call of the cycle.
SampleRaises ==
  /\ pc = "sample"
  /\ CycleError(<<>>)
  /\ UNCHANGED <<geoVars, total_messages, count, attempted, interrupted,
                 connectRaised, sessionStarted, loopRunning, sock, connack,
                 onConnectRc, inflight, ackLog, reported>>

\* result = client.publish(MQTT_TOPIC, message_json, qos=2) returns; the
\* message is handed to the client whether or not the session is connected.
PublishOk ==
  /\ pc = "publish"
  /\ pc' = "count"
  /\ trace' = trace \o <<"pub">>
  /\ inflight' = Append(inflight, Pubs(trace) + 1)
  /\ UNCHANGED <<geoVars, total_messages, i, count, attempted, errored, interrupted,
                 connectRaised, sessionStarted, loopRunning, sock, connack,
                 onConnectRc, ackLog, reports, reported>>

\* client.publish is called and raises.
PublishRaises ==
  /\ pc = "publish"
  /\ CycleError(<<"pub_raised">>)
  /\ UNCHANGED <<geoVars, total_messages, count, attempted, interrupted,
                 connectRaised, sessionStarted, loopRunning, sock, connack,
                 onConnectRc, inflight, ackLog, reported>>

\* client._userdata["count"] = i + 1
UpdateCount ==
  /\ pc = "count"
  /\ pc' = "log"
  /\ count' = i + 1
  /\ UNCHANGED <<geoVars, total_messages, i, trace, attempted, errored, interrupted,
                 connectRaised, sessionStarted, loopRunning, sock, connack,
                 onConnectRc, inflight, ackLog, reports, reported>>

\* "if i < total_messages - 1:"
NeedsDelayAlways(idx, n) == idx < n
NeedsDelay(idx, n) == idx < n - 1

\* The per-message log lines, then the pacing decision.
LogDetails ==
  /\ pc = "log"
  /\ IF NeedsDelay(i, total_messages)
       THEN pc' = "sleep60" /\ UNCHANGED i
       ELSE pc' = "for" /\ i' = i + 1
  /\ UNCHANGED <<geoVars, total_messages, count, trace, attempted, errored,
                 interrupted, connectRaised, sessionStarted, loopRunning,
                 sock, connack, onConnectRc, inflight, ackLog, reports,
                 reported>>

\* time.sleep(60) returns.
Sleep60 ==
  /\ pc = "sleep60"
  /\ pc' = "for"
  /\ i' = i + 1
  /\ trace' = trace \o <<"sleep">>
  /\ UNCHANGED <<geoVars, total_messages, count, attempted, errored, interrupted,
                 connectRaised, sessionStarted, loopRunning, sock, connack,
                 onConnectRc, inflight, ackLog, reports, reported>>

\* KeyboardInterrupt inside the loop's try body: "except KeyboardInterrupt:
\* print(...); break".
InterruptInLoop ==
  /\ pc \in TryBody
  /\ pc' = "report"
  /\ interrupted' = TRUE
  /\ reports' = reports \cup {"interrupted_by_user"}
  /\ UNCHANGED <<geoVars, total_messages, i, count, trace, attempted, errored,
                 connectRaised, sessionStarted, loopRunning, sock, connack,
                 onConnectRc, inflight, ackLog, reported>>

\* KeyboardInterrupt anywhere else in run_test: "except Exception" does not
\* catch it, it reaches the handler of __main__, which only prints.
InterruptOutsideLoop ==
  /\ pc \notin TryBody \cup Terminal
  /\ pc' = "stopped_by_user"
  /\ interrupted' = TRUE
  /\ reports' = reports \cup {"stopped_by_user"}
  /\ UNCHANGED <<geoVars, total_messages, i, count, trace, attempted, errored,
                 connectRaised, sessionStarted, loopRunning, sock, connack,
                 onConnectRc, inflight, ackLog, reported>>

\* print(f"... Published {client._userdata['count']} messages")
Report ==
  /\ pc = "report"
  /\ pc' = "loop_stop"
  /\ reported' = count
  /\ UNCHANGED <<geoVars, total_messages, i, count, trace, attempted, errored,
                 interrupted, connectRaised, sessionStarted, loopRunning,
                 sock, connack, onConnectRc, inflight, ackLog, reports>>

\* client.loop_stop()
LoopStop ==
  /\ pc = "loop_stop"
  /\ pc' = "disconnect"
  /\ loopRunning' = FALSE
  /\ UNCHANGED <<geoVars, total_messages, i, count, trace, attempted, errored,
                 interrupted, connectRaised, sessionStarted, sock, connack,
                 onConnectRc, inflight, ackLog, reports, reported>>

\* client.disconnect(), then run_test returns.
Disconnect ==
  /\ pc = "disconnect"
  /\ pc' = "returned"
  /\ sock' = "closed"
  /\ UNCHANGED <<geoVars, total_messages, i, count, trace, attempted, errored,
                 interrupted, connectRaised, sessionStarted, loopRunning,
                 connack, onConnectRc, inflight, ackLog, reports, reported>>

\* ------------------------------------------------------------------------
\* Callbacks, run by the client's network thread
\* ------------------------------------------------------------------------
\* on_connect(client, userdata, flags, rc): prints, touches nothing else.
on_connect(rc) ==
  /\ loopRunning
  /\ connack = "pending"
  /\ onConnectRc' = rc
  /\ IF rc = 0
       THEN /\ connack' = "accepted"
            /\ UNCHANGED <<geoVars, sock, reports>>
       ELSE /\ connack' = "refused"
            /\ sock' = "closed"
            /\ reports' = reports \cup {"connection_failed_with_code"}
  /\ UNCHANGED <<geoVars, pc, total_messages, i, count, trace, attempted, errored,
                 interrupted, connectRaised, sessionStarted, loopRunning,
                 inflight, ackLog, reported>>

\* on_publish(client, userdata, mid): prints userdata['count'] as it is when
\* the acknowledgement of the oldest unacknowledged publish arrives.
on_publish ==
  /\ loopRunning
  /\ connack = "accepted"
  /\ inflight # <<>>
  /\ ackLog' = Append(ackLog, [msg |-> Head(inflight), read |-> count])
  /\ inflight' = Tail(inflight)
  /\ UNCHANGED <<geoVars, pc, total_messages, i, count, trace, attempted, errored,
                 interrupted, connectRaised, sessionStarted, loopRunning,
                 sock, connack, onConnectRc, reports, reported>>

Next ==
  \/ ConnectOk
  \/ ConnectRaises
  \/ LoopStart
  \/ StartupSleep
  \/ ForNext
  \/ SampleOk
  \/ SampleRaises
  \/ PublishOk
  \/ PublishRaises
  \/ UpdateCount
  \/ LogDetails
  \/ Sleep60
  \/ InterruptInLoop
  \/ InterruptOutsideLoop
  \/ Report
  \/ LoopStop
  \/ Disconnect
  \/ \E rc \in ConnackCodes : on_connect(rc)
  \/ on_publish

Spec == Init /\ [][Next]_vars

\* The helpers on their own: the run stays at its first statement.
InitGeo ==
  /\ InitRun({1})
  /\ GeoDrawn

SpecGeo == InitGeo /\ [][NextGeo]_vars

\* ------------------------------------------------------------------------
\* Properties
\* ------------------------------------------------------------------------
Alternates(t) ==
  \A k \in 1..Len(t) : t[k] = IF k % 2 = 1 THEN "pub" ELSE "sleep"

PublishAttempt(ev) == ev \in {"pub", "pub_raised"}

Cleanup == {"report", "loop_stop", "disconnect", "returned"}

ConnectionFailed == connectRaised \/ onConnectRc > 0

\* fl(k/M) - fl(k0/M) (exact in double arithmetic, the operands being close)
\* compared with the double nearest to V / M: the difference is
\* ((k - k0) * 2^p + DoubleErr(k) - DoubleErr(k0)) / M spacings, an integer
\* number of spacings, and it is <= fl(V / M) exactly when it is
\* <= floor(V * 2^p / M) = (V * 2^p - ScaledFrac(V)) / M spacings.  `slack`
\* spacings are added to the right-hand side.
DoubleDiffWithin(k, k0, V, M, slack) ==
  LET p == UlpExp(k0, M)
      j == Abs(k - k0)
      e == IF k >= k0 THEN DoubleErr(k, M) - DoubleErr(k0, M)
                      ELSE DoubleErr(k0, M) - DoubleErr(k, M)
  IN \/ j < V
     \/ j = V /\ e <= slack * M - ScaledFrac(V, p, M)

\* C1: in a run whose connection succeeded and in which no cycle failed and
\* no interrupt arrived, publishes and 60-second delays alternate, starting
\* and ending with a publish: once run_test has returned there are exactly
\* total_messages publishes and total_messages - 1 delays, and at no moment
\* of such a run does a delay follow the last of the total_messages publishes.
C1_PacedRun ==
  (~connectRaised /\ errored = {} /\ ~interrupted) =>
    /\ Alternates(trace)
    /\ Len(trace) <= 2 * total_messages - 1
    /\ (pc = "returned" /\ onConnectRc = 0) =>
         /\ Pubs(trace) = total_messages
         /\ Sleeps(trace) = total_messages - 1

C1_Witness ==
  /\ pc = "returned"
  /\ onConnectRc = 0
  /\ errored = {}
  /\ ~interrupted
  /\ total_messages = 3
  /\ trace = <<"pub", "sleep", "pub", "sleep", "pub">>

\* C2: once the connection has failed (connect raised, or on_connect got a
\* non-zero rc) no publish is issued, and a run that returns has printed a
\* connection failure report.
C2_ConnectFailureIsFatal ==
  ConnectionFailed =>
    /\ \A k \in 1..Len(trace) : ~PublishAttempt(trace[k])
    /\ pc = "returned" =>
         reports \cap {"failed_to_connect", "connection_failed_with_code"} # {}

\* C3: an Exception raised in cycle c is not fatal: unless the user
\* interrupts, cycle c + 1 is attempted next (c < total_messages), the loop
\* is left only after all total_messages cycles were attempted, and the run
\* ends only through the cleanup step (count reported, network loop stopped).
C3_CycleErrorNotFatal ==
  (errored # {} /\ ~interrupted) =>
    /\ \A c \in errored :
         c < total_messages => (c + 1 \in attempted \/ (pc = "for" /\ i = c))
    /\ pc \in Cleanup => attempted = 1..total_messages
    /\ pc \in Terminal => (pc = "returned" /\ reported # -1 /\ ~loopRunning)

C3_Witness ==
  /\ pc = "returned"
  /\ ~interrupted
  /\ total_messages = 3
  /\ errored = {1, 2}
  /\ attempted = {1, 2, 3}
  /\ trace = <<"fail", "pub_raised", "fail", "pub">>
  /\ reported = 3

\* C4: a 60-second delay separates a failed cycle from the next publish
\* attempt.
C4_CadencePreserved ==
  \A k \in 1..Len(trace) : \A l \in (k + 1)..Len(trace) :
    (trace[k] = "fail" /\ PublishAttempt(trace[l])) =>
      \E m \in (k + 1)..(l - 1) : trace[m] = "sleep"

\* C5: once connect and loop_start are done, a run that has ended has
\* stopped the network loop, closed the connection and reported the count.
C5_EveryEndTerminates ==
  (sessionStarted /\ pc \in Terminal) =>
    /\ ~loopRunning
    /\ sock = "closed"
    /\ reported # -1

\* C6: the count the cleanup step prints is the number of publish calls
\* that handed a message to the client.
C6_ReportedIsSent ==
  reported # -1 => reported = Pubs(trace)

\* C7: in every generated message the fence status is "inside_fence" exactly
\* when the message's distance_m is strictly below its radius_m, which is
\* the configured fence radius.
C7_FenceStatusStrict ==
  gpc = "generated" =>
    /\ message.radius_m = fence_radius
    /\ message.status \in {"inside_fence", "outside_fence"}
    /\ message.status = "inside_fence" <=> message.distance_m < message.radius_m

C7_Witness ==
  /\ gpc = "generated"
  /\ message.distance_m = fence_radius
  /\ message.status = "outside_fence"

\* C8 as stated: the doubles vary_location returns differ from the base
\* doubles by at most the doubles LAT_VARIATION, LON_VARIATION,
\* ALT_VARIATION.
C8_WithinJitterAsDoubles ==
  gpc \in {"varied", "generated"} =>
    /\ DoubleDiffWithin(loc.lat, BASE_LATITUDE, LAT_VARIATION, LatLonScale, 0)
    /\ DoubleDiffWithin(loc.lon, BASE_LONGITUDE, LON_VARIATION, LatLonScale, 0)
    /\ DoubleDiffWithin(loc.alt, BASE_ALTITUDE, ALT_VARIATION, AltScale, 0)

\* C8 amended: the decimal values vary_location rounds to (6 and 2 places)
\* are within the jitter of the base point's decimal values on each axis;
\* as doubles, latitude and longitude exceed the jitter by at most one
\* spacing of the doubles at that coordinate, the altitude never does.
C8_WithinJitterAsDecimals ==
  gpc \in {"varied", "generated"} =>
    /\ Abs(loc.lat - BASE_LATITUDE) <= LAT_VARIATION
    /\ Abs(loc.lon - BASE_LONGITUDE) <= LON_VARIATION
    /\ Abs(loc.alt - BASE_ALTITUDE) <= ALT_VARIATION
    /\ DoubleDiffWithin(loc.lat, BASE_LATITUDE, LAT_VARIATION, LatLonScale, 1)
    /\ DoubleDiffWithin(loc.lon, BASE_LONGITUDE, LON_VARIATION, LatLonScale, 1)
    /\ DoubleDiffWithin(loc.alt, BASE_ALTITUDE, ALT_VARIATION, AltScale, 0)

C8_Witness ==
  /\ gpc = "varied"
  /\ loc.lat = BASE_LATITUDE - LAT_VARIATION
  /\ ~DoubleDiffWithin(loc.lat, BASE_LATITUDE, LAT_VARIATION, LatLonScale, 0)
  /\ loc.alt = BASE_ALTITUDE + ALT_VARIATION

\* C9: a publish is issued only after on_connect was called with rc = 0.
C9_PublishAfterConnack ==
  (\E k \in 1..Len(trace) : PublishAttempt(trace[k])) => onConnectRc = 0

\* C10: on_publish, called for the acknowledgement of the k-th publish,
\* reads userdata['count'] = k.
C10_AckReadsOwnNumber ==
  \A k \in 1..Len(ackLog) : ackLog[k].read = ackLog[k].msg
====
